---- MODULE Spec2Model ----
(***************************************************************************)
(* SEG-D parser (segd_parser.py, decoder.py).  SegDParser.read_segd walks  *)
(* one byte stream forward: General Header 1/2/3, the scan type headers,   *)
(* the extended and the external header, then the trace blocks.  The       *)
(* module models the parser object (header_block, traceh_list,             *)
(* traces_data), the locals of read_segd, the stream and its cursor, one   *)
(* action per reader, and the primitives of Decoder as operators.          *)
(*                                                                         *)
(* A byte is a number in 0..255, a buffer is a sequence of bytes, and the  *)
(* python offset o of a buffer is its element o+1.  A header record is a   *)
(* function from field names to values; None is the number -1 (no decoder  *)
(* returns a negative number).  The records keep the fields that decide    *)
(* the control flow, the sizes and the merge; the other fields of the      *)
(* source are decoded by primitives that cannot fail and are left out.     *)
(***************************************************************************)
EXTENDS Integers, Sequences, FiniteSets, TLC

VARIABLES
    file,          \* the bytes of the file at self._filepath
    pc,            \* position of control in read_segd
    err,           \* the exception that left read_segd, "none" otherwise
    ncalls,        \* calls of read_segd made on this parser object
    stream,        \* self._byte_stream: "unopened", "open" or "closed"
    pos,           \* the cursor of the stream: bytes consumed
    log,           \* the read() calls of this read_segd, in order
    header_block,  \* self.header_block
    traceh_list,   \* self.traceh_list
    traces_data,   \* self.traces_data: [set, rows, cols, m], set = FALSE before it is assigned
    generalh,      \* local generalh
    sch,           \* local sch: channel_set_number -> scan type header
    sch_n,         \* scan type headers read so far
    extdh,         \* local extdh
    extrh,         \* local extrh
    traceh,        \* the trace header being read
    eb_n,          \* trace header extensions read for it
    data,          \* the sample array of the trace being read
    st,            \* local st: the traces appended so far
    convert_to_int, \* local convert_to_int
    arg,           \* the argument of a Decoder primitive applied on its own
    ret            \* what that primitive returned

vars == <<file, pc, err, ncalls, stream, pos, log, header_block, traceh_list,
          traces_data, generalh, sch, sch_n, extdh, extrh, traceh, eb_n, data,
          st, convert_to_int, arg, ret>>

(***************************************************************************)
(* Bounds of the model.                                                    *)
(***************************************************************************)
MaxChannelSets == 2   \* scan type headers declared by a generated file
MaxTraces == 2        \* trace blocks of a generated file
MaxCalls == 2         \* calls of read_segd on one parser object

(***************************************************************************)
(* Program constants.                                                      *)
(***************************************************************************)
SupportedFormat == 8058
GeneralHdrSize == 32
SchSize == 32
TracehSize == 20
TracehEbSize == 32
SampleSize == 4
ExtHdrOverflow == 165
None == 0 - 1

Min(a, b) == IF a < b THEN a ELSE b

Pow10(n) == IF n <= 0 THEN 1 ELSE 10 ^ n

\* python buf[a:b]
Slice(buf, a, b) == SubSeq(buf, a + 1, Min(b, Len(buf)))

\* python buf[a], defined when a < len(buf)
HasIndex(buf, a) == a < Len(buf)

(***************************************************************************)
(* Decoder                                                                 *)
(***************************************************************************)
\* a decoder that refuses a nibble above 9
bcd_error_strict(byte) ==
    IF byte > 255 \/ byte \div 16 > 9 \/ byte % 16 > 9 THEN "ValueError" ELSE "none"

bcd(byte) == <<byte \div 16, byte % 16>>

\* bcd: ValueError('not a byte') for an int above 255, nothing else is checked
bcd_error(byte) == IF byte > 255 THEN "ValueError" ELSE "none"

decode_bcd_error(bytes_in) ==
    IF \E i \in 1..Len(bytes_in) : bcd_error(bytes_in[i]) # "none"
    THEN "ValueError" ELSE "none"

RECURSIVE decode_bcd(_)
decode_bcd(bytes_in) ==
    IF bytes_in = <<>> THEN 0
    ELSE LET n == 2 * Len(bytes_in) - 1
             v == bcd(bytes_in[1])
         IN v[1] * Pow10(n) + v[2] * Pow10(n - 1) + decode_bcd(Tail(bytes_in))

RECURSIVE decode_bin(_)
decode_bin(bytes_in) ==
    IF bytes_in = <<>> THEN 0
    ELSE bytes_in[1] * (256 ^ (Len(bytes_in) - 1)) + decode_bin(Tail(bytes_in))

decode_bin_bool(bytes_in) == decode_bin(bytes_in) > 0

\* struct.unpack('>d', b) needs exactly 8 bytes
decode_dbl_ok(bytes_in) == Len(bytes_in) = 8

\* An IEEE single as its sign, biased exponent and fraction bits.
F32(b) == [sign |-> b[1] \div 128,
           exp  |-> (b[1] % 128) * 2 + (b[2] \div 128),
           frac |-> (b[2] % 128) * 65536 + b[3] * 256 + b[4]]

F32Zero == [sign |-> 0, exp |-> 0, frac |-> 0]

\* string.printable, as character codes in its order
Printable ==
    <<48, 49, 50, 51, 52, 53, 54, 55, 56, 57>> \o
    [i \in 1..26 |-> 96 + i] \o [i \in 1..26 |-> 64 + i] \o
    [i \in 1..15 |-> 32 + i] \o [i \in 1..7 |-> 57 + i] \o
    [i \in 1..6 |-> 90 + i] \o [i \in 1..4 |-> 122 + i] \o
    <<32, 9, 10, 13, 11, 12>>

\* `x in printable` on the map object: the search consumes the iterator up to
\* and including the first match, or to its end when there is none.
NextMatch(x, it) ==
    LET hits == {j \in (it + 1)..Len(Printable) : Printable[j] = x}
    IN IF hits = {} THEN 0 ELSE CHOOSE j \in hits : \A k \in hits : j <= k

RECURSIVE asc_scan(_, _)
asc_scan(bytes_in, it) ==
    IF bytes_in = <<>> THEN <<>>
    ELSE LET j == NextMatch(bytes_in[1], it)
         IN IF j = 0 THEN asc_scan(Tail(bytes_in), Len(Printable))
            ELSE <<bytes_in[1]>> \o asc_scan(Tail(bytes_in), j)

NoneText == <<None>>

decode_asc(bytes_in) ==
    LET s == asc_scan(bytes_in, 0)
    IN IF s = <<>> THEN NoneText ELSE s

(***************************************************************************)
(* The input files.  A file is any sequence of bytes; the ones generated   *)
(* here are SEG-D records laid out block by block from a few parameters,   *)
(* and prefixes of such records (a file cut short).                        *)
(***************************************************************************)
SeqsUpTo(S, n) == UNION {[1..m -> S] : m \in 0..n}

RECURSIVE Concat(_)
Concat(ss) == IF ss = <<>> THEN <<>> ELSE ss[1] \o Concat(Tail(ss))

\* bytes 2-3 of General Header 1: 0x8058, 0x0000, and 0x7A58 (not BCD)
FormatCodes == {<<128, 88>>, <<0, 0>>, <<122, 88>>}
\* byte 31 of General Header 1: 0 blocks, 1 block, 0xFF
ExtLenBytes == {0, 1, 255}
\* a scan type block: 0 is the all-zero block, c > 0 has channel_set_number c
SchKinds == {0, 1, 2}
\* a trace block <<k, c>>: k extension blocks, channel_set_number c
TraceKinds == {<<0, 1>>, <<1, 1>>, <<2, 1>>, <<1, 2>>}
SampleCounts == {0, 1, 2}
\* bytes cut off the end of a file
TailCuts == {0, 4, 30}
\* lengths a file is cut to inside the general headers
HeadCuts == {0, 3, 8, 16, 23, 25, 28, 32, 40, 44, 64, 70}
\* lengths a file is cut to inside the first scan type block
SchCuts == {101, 126}

Word(n) == <<(n \div 16777216) % 256, (n \div 65536) % 256, (n \div 256) % 256, n % 256>>

GenGh1(fmt, nsch, ext) ==
    [i \in 1..32 |->
        CASE i = 2 -> 1           \* file number 0001
          [] i = 3 -> fmt[1]
          [] i = 4 -> fmt[2]
          [] i = 11 -> 32         \* year 20
          [] i = 12 -> 1          \* julian day 100
          [] i = 23 -> 16         \* base scan interval 10
          [] i = 29 -> nsch
          [] i = 31 -> 25         \* extended header length 19
          [] i = 32 -> ext
          [] OTHER -> 0]

GenGh2 ==
    [i \in 1..32 |->
        CASE i = 9 -> 2           \* external header blocks 2
          [] i = 11 -> 1          \* revision 1.0
          [] OTHER -> 0]

GenGh3 == [i \in 1..32 |-> IF i = 19 THEN 3 ELSE 0]

GenSch(c) ==
    [i \in 1..32 |->
        IF c = 0 THEN 0
        ELSE CASE i = 1 -> 1
               [] i = 2 -> c
               [] i = 10 -> 2     \* number of channels 2
               [] i = 28 -> 16 + c \* extended channel set number
               [] i = 29 -> 1     \* trace header extensions 1
               [] OTHER -> 0]

GenExtdh(ntr, npts, rate) ==
    [i \in 1..608 |->
        CASE i \in 5..8 -> Word(rate)[i - 4]      \* sample rate in us
          [] i \in 9..12 -> Word(ntr)[i - 8]      \* total number of traces
          [] i \in 33..36 -> Word(npts)[i - 32]   \* number of samples in trace
          [] OTHER -> 0]

GenExtrh(nblocks) == [i \in 1..(32 * nblocks) |-> IF i % 2 = 1 THEN 66 ELSE 65]

GenTraceh(t, kind) ==
    [i \in 1..20 |->
        CASE i = 2 -> 1           \* file number 0001
          [] i = 3 -> 1
          [] i = 4 -> kind[2]     \* channel set number
          [] i = 6 -> t           \* trace number
          [] i = 10 -> kind[1]    \* trace header extensions
          [] i = 16 -> 7          \* extended channel set number
          [] OTHER -> 0]

GenEb(t, n) == [i \in 1..32 |-> IF i = 3 THEN 16 * t + n ELSE IF i = 32 THEN n ELSE 0]

GenSamples(t, npts) ==
    [i \in 1..(4 * npts) |->
        CASE i % 4 = 1 -> 65
          [] i % 4 = 2 -> 16 * t + ((i - 1) \div 4)
          [] OTHER -> 0]

GenTrace(t, kind, npts) ==
    GenTraceh(t, kind) \o Concat([n \in 1..kind[1] |-> GenEb(t, n)]) \o GenSamples(t, npts)

GenExtBlocks(ext) == IF ext = 255 \/ ext > 9 THEN 2 ELSE ext

GenFile(fmt, schk, ext, tr, npts, rate) ==
    GenGh1(fmt, Len(schk), ext) \o GenGh2 \o GenGh3
    \o Concat([n \in 1..Len(schk) |-> GenSch(schk[n])])
    \o GenExtdh(Len(tr), npts, rate) \o GenExtrh(GenExtBlocks(ext))
    \o Concat([t \in 1..Len(tr) |-> GenTrace(t, tr[t], npts)])

CutTo(f, n) == SubSeq(f, 1, Min(n, Len(f)))
CutOff(f, d) == SubSeq(f, 1, Len(f) - d)

\* a record with nothing after the general headers, every format code, cut
\* inside the general headers
FilesFormat ==
    {CutTo(GenFile(fmt, <<>>, 0, <<>>, 0, 1000), n) :
        fmt \in FormatCodes, n \in HeadCuts \cup {96 + 608}}

\* records without traces: every scan type table and external header length
FilesHeaders ==
    {CutOff(GenFile(<<128, 88>>, schk, ext, <<>>, 0, 1000), d) :
        schk \in SeqsUpTo(SchKinds, MaxChannelSets), ext \in ExtLenBytes, d \in TailCuts}
    \cup
    {CutTo(GenFile(<<128, 88>>, schk, 1, <<>>, 0, 1000), n) :
        schk \in SeqsUpTo(SchKinds, MaxChannelSets) \ {<<>>}, n \in SchCuts}

\* records with traces, over one scan type header (channel set 1)
FilesTraces ==
    {CutOff(GenFile(<<128, 88>>, <<1>>, 1, tr, npts, 1000), d) :
        tr \in SeqsUpTo(TraceKinds, MaxTraces) \ {<<>>}, npts \in SampleCounts,
        d \in TailCuts}

\* a record of one trace whose extended header gives a sample rate of 0
FilesRate == {GenFile(<<128, 88>>, <<1>>, 0, <<<<0, 1>>>>, 1, 0)}

\* records whose byte 31 of General Header 1 is 0x0A or 0xFE (not BCD: 10 and
\* 164 blocks), ending before or inside the external header
FilesExtLen ==
    {CutTo(GenFile(<<128, 88>>, <<>>, ext, <<>>, 0, 1000), 96 + 608 + n) :
        ext \in {10, 254}, n \in {0, 40}}

\* f with the bytes bs written at offset at
Patch(f, at, bs) ==
    [i \in 1..Len(f) |-> IF i > at /\ i <= at + Len(bs) THEN bs[i - at] ELSE f[i]]

\* a record of one trace whose trace header has the file number 0xFFFF
FilesFileNumber ==
    {Patch(GenFile(<<128, 88>>, <<1>>, 1, <<<<0, 1>>>>, 1, 1000), 768, <<255, 255>>)}

\* a record of two traces of one sample: 9.0625 in the first, 10.0 in the second
FilesFraction ==
    {Patch(GenFile(<<128, 88>>, <<1>>, 1, <<<<0, 1>>, <<0, 1>>>>, 1, 1000), 789, <<17>>)}

\* the words decoded as noise elimination type: 0..5, and 258 whose low
\* byte is 2
OverlayWords == {Word(n) : n \in {0, 1, 2, 3, 4, 5, 258}}

\* a record without channel sets or traces whose extended header (at offset
\* 96) has the noise elimination type w and distinct values in the overlay
FilesOverlay ==
    {Patch(Patch(Patch(Patch(GenFile(<<128, 88>>, <<>>, 0, <<>>, 0, 1000),
                             96 + 96, w),
                       96 + 108, Word(5) \o Word(6)),
                 96 + 120, Word(7) \o Word(8)),
           96 + 132, Word(9) \o Word(10)) : w \in OverlayWords}

Files ==
    FilesFormat \cup FilesHeaders \cup FilesTraces \cup FilesRate \cup FilesExtLen
    \cup FilesFileNumber \cup FilesFraction \cup FilesOverlay

(***************************************************************************)
(* The header records.  OrderedDict() is the empty function and            *)
(* d.update(e) lets the fields of e replace those of d.                    *)
(***************************************************************************)
Dict0 == [k \in {} |-> 0]

Update(d, e) == e @@ d

\* self._byte_stream.read(n): the next n bytes, or those left when fewer are
ReadBuf(n) == SubSeq(file, pos + 1, Min(pos + n, Len(file)))

\* a read() call: the reader, its extension block number (0 for the others),
\* the size asked for, the cursor before it and the bytes obtained
LogEntry(who, blk, n, buf) ==
    [who |-> who, blk |-> blk, n |-> n, at |-> pos, got |-> Len(buf)]

\* UTCDateTime(year, julday, hour, minute, second) accepts a date that exists
TimeOk(jday, hour, minute, sec) ==
    jday \in 1..366 /\ hour \in 0..23 /\ minute \in 0..59 /\ sec \in 0..59

\* _read_general_hdr1 without its check of the format code
GeneralHdr1Error_NoFormatCheck(buf) ==
    IF ~HasIndex(buf, 11) THEN "IndexError"
    ELSE IF decode_bcd(Slice(buf, 22, 23)) = 0 THEN "ZeroDivisionError"
    ELSE IF ~HasIndex(buf, 23) \/ ~HasIndex(buf, 25) THEN "IndexError"
    ELSE "none"

\* _read_general_hdr1: the exception decoding buf raises, "none" when it returns
GeneralHdr1Error(buf) ==
    IF decode_bcd(Slice(buf, 2, 4)) # SupportedFormat THEN "SEGDNotImplemented"
    ELSE IF ~HasIndex(buf, 11) THEN "IndexError"
    ELSE IF ~TimeOk(bcd(buf[12])[2] * 100 + decode_bcd(Slice(buf, 12, 13)),
                    decode_bcd(Slice(buf, 13, 14)), decode_bcd(Slice(buf, 14, 15)),
                    decode_bcd(Slice(buf, 15, 16))) THEN "ValueError"
    ELSE IF decode_bcd(Slice(buf, 22, 23)) = 0 THEN "ZeroDivisionError"
    ELSE IF ~HasIndex(buf, 23) \/ ~HasIndex(buf, 25) THEN "IndexError"
    ELSE "none"

\* _read_general_hdr1: the record it returns (general_constants, time and
\* base_scan_interval_in_ms are left out)
GeneralHdr1(buf) ==
    LET _rec_len == 256 * bcd(buf[26])[2] + decode_bin(Slice(buf, 26, 27))
        _ehl == decode_bcd(Slice(buf, 31, 32))
    IN [file_number |-> decode_bcd(Slice(buf, 0, 2)),
        format_code |-> decode_bcd(Slice(buf, 2, 4)),
        n_additional_blocks |-> bcd(buf[12])[1],
        manufacture_code |-> decode_bcd(Slice(buf, 16, 17)),
        manufacture_serial_number |-> decode_bcd(Slice(buf, 17, 19)),
        bytes_per_scan |-> decode_bcd(Slice(buf, 19, 22)),
        polarity |-> bcd(buf[24])[1],
        record_length |-> IF _rec_len = 4095 THEN None ELSE _rec_len,
        scan_type_per_record |-> decode_bcd(Slice(buf, 27, 28)),
        n_channel_sets_per_record |-> decode_bcd(Slice(buf, 28, 29)),
        n_sample_skew_32bit_extensions |-> decode_bcd(Slice(buf, 29, 30)),
        extended_header_length |-> decode_bcd(Slice(buf, 30, 31)),
        external_header_length |-> IF _ehl = 255 THEN None ELSE _ehl]

\* _read_general_hdr2: ord() of an empty slice raises
GeneralHdr2Error(buf) ==
    IF Len(Slice(buf, 10, 11)) # 1 \/ Len(Slice(buf, 11, 12)) # 1 THEN "TypeError"
    ELSE "none"

\* segd_revision_number is kept in tenths: 10 * (ord(b10) + ord(b11) / 10.)
GeneralHdr2(buf) ==
    [expanded_file_number |-> decode_bin(Slice(buf, 0, 3)),
     external_header_blocks |-> decode_bin(Slice(buf, 7, 9)),
     segd_revision_number |-> 10 * buf[11] + buf[12],
     no_blocks_of_general_trailer |-> decode_bin(Slice(buf, 12, 14)),
     extended_record_length_in_ms |-> decode_bin(Slice(buf, 14, 17)),
     general_header_block_number |-> decode_bin(Slice(buf, 18, 19))]

\* _read_general_hdr3 (source_line_number and source_point_number are left out)
GeneralHdr3(buf) ==
    [expanded_file_number |-> decode_bin(Slice(buf, 0, 3)),
     phase_control |-> decode_bin(Slice(buf, 14, 15)),
     vibrator_type |-> decode_bin(Slice(buf, 15, 16)),
     phase_angle |-> decode_bin(Slice(buf, 16, 18)),
     general_header_block_number |-> decode_bin(Slice(buf, 18, 19)),
     source_set_number |-> decode_bin(Slice(buf, 19, 20))]

RECURSIVE SumBytes(_)
SumBytes(buf) == IF buf = <<>> THEN 0 ELSE buf[1] + SumBytes(Tail(buf))

\* _read_sch without its check for the all-zero block
SchError_NoEmptyCheck(buf) ==
    IF ~HasIndex(buf, 10) \/ ~HasIndex(buf, 11) \/ ~HasIndex(buf, 28) THEN "IndexError"
    ELSE "none"

\* _read_sch: SEGDScanTypeError for a buffer that sums to zero, IndexError for
\* buf[10], buf[11] or buf[28] past the end of a short buffer
SchError(buf) ==
    IF SumBytes(buf) = 0 THEN "SEGDScanTypeError"
    ELSE IF ~HasIndex(buf, 10) \/ ~HasIndex(buf, 11) \/ ~HasIndex(buf, 28) THEN "IndexError"
    ELSE "none"

Sch(buf) ==
    [scan_type_header |-> decode_bcd(Slice(buf, 0, 1)),
     channel_set_number |-> decode_bcd(Slice(buf, 1, 2)),
     channel_set_starting_time |-> decode_bin(Slice(buf, 2, 4)),
     channel_set_end_time |-> decode_bin(Slice(buf, 4, 6)),
     number_of_channels |-> decode_bcd(Slice(buf, 8, 10)),
     channel_type_id |-> bcd(buf[11])[1],
     number_of_subscans_exponent |-> bcd(buf[12])[1],
     channel_gain_control_method |-> bcd(buf[12])[2],
     first_notch_freq |-> decode_bcd(Slice(buf, 20, 22)),
     second_notch_freq |-> decode_bcd(Slice(buf, 22, 24)),
     third_notch_freq |-> decode_bcd(Slice(buf, 24, 26)),
     extended_channel_set_number |-> decode_bcd(Slice(buf, 26, 28)),
     extended_header_flag |-> bcd(buf[29])[1],
     trace_header_extensions |-> bcd(buf[29])[2],
     vertical_stack |-> decode_bin(Slice(buf, 29, 30)),
     streamer_cable_number |-> decode_bin(Slice(buf, 30, 31)),
     array_forming |-> decode_bin(Slice(buf, 31, 32))]

\* _read_extended_header: decode_dbl of a slice shorter than 8 bytes raises
ExtendedHeaderError(buf) ==
    IF ~decode_dbl_ok(Slice(buf, 572, 580)) \/ ~decode_dbl_ok(Slice(buf, 580, 588))
    THEN "struct.error" ELSE "none"

\* an overlay decoded as a flat struct: every variant's fields at once
ExtendedHeaderOverlay_Flat(buf) ==
    [number_of_windows |-> decode_bin(Slice(buf, 108, 112)),
     window_length |-> decode_bin(Slice(buf, 108, 112)),
     overlap |-> decode_bin(Slice(buf, 112, 116)),
     historic_range |-> decode_bin(Slice(buf, 120, 124)),
     historic_taper_length_2_exponent |-> decode_bin(Slice(buf, 124, 128)),
     historic_threshold_init_value |-> decode_bin(Slice(buf, 132, 136)),
     historic_zeroing_length |-> decode_bin(Slice(buf, 136, 140))]

\* the overlay fields, chosen by _net
ExtendedHeaderOverlay(buf) ==
    LET _net == decode_bin(Slice(buf, 96, 100))
        _value1 == decode_bin(Slice(buf, 108, 112))
        _value2 == decode_bin(Slice(buf, 112, 116))
    IN IF _net = 2 THEN [number_of_windows |-> _value1]
       ELSE IF _net = 3 THEN
            [historic_range |-> decode_bin(Slice(buf, 120, 124)),
             historic_taper_length_2_exponent |-> decode_bin(Slice(buf, 124, 128)),
             historic_threshold_init_value |-> decode_bin(Slice(buf, 132, 136)),
             historic_zeroing_length |-> decode_bin(Slice(buf, 136, 140))]
       ELSE IF _net = 4 THEN [window_length |-> _value1, overlap |-> _value2]
       ELSE Dict0

\* _read_extended_header (the float, text and table fields are left out)
ExtendedHeader(buf) ==
    Update([acquisition_length_in_ms |-> decode_bin(Slice(buf, 0, 4)),
            sample_rate_in_us |-> decode_bin(Slice(buf, 4, 8)),
            total_number_of_traces |-> decode_bin(Slice(buf, 8, 12)),
            number_of_auxes |-> decode_bin(Slice(buf, 12, 16)),
            number_of_seis_traces |-> decode_bin(Slice(buf, 16, 20)),
            number_of_samples_in_trace |-> decode_bin(Slice(buf, 32, 36)),
            shot_number |-> decode_bin(Slice(buf, 36, 40)),
            internal_time_break |-> decode_bin_bool(Slice(buf, 88, 92)),
            low_trace_percentage |-> decode_bin(Slice(buf, 100, 104)),
            low_trace_value_in_dB |-> decode_bin(Slice(buf, 104, 108)),
            noisy_trace_percentage |-> decode_bin(Slice(buf, 116, 120)),
            stacking_fold |-> decode_bin(Slice(buf, 400, 404)),
            tape_label |-> decode_asc(Slice(buf, 524, 540))],
           ExtendedHeaderOverlay(buf))

\* _read_traceh (first_timing_word_in_ms is kept in 1/256 ms, time_break_window
\* is left out); no primitive it uses fails on a short buffer
Traceh(buf) ==
    LET _fn == decode_bcd(Slice(buf, 0, 2))
    IN [file_number |-> IF _fn = 65535 THEN None ELSE _fn,
        scan_type_number |-> decode_bcd(Slice(buf, 2, 3)),
        channel_set_number |-> decode_bcd(Slice(buf, 3, 4)),
        trace_number |-> decode_bcd(Slice(buf, 4, 6)),
        first_timing_word_in_ms |-> decode_bin(Slice(buf, 6, 9)),
        trace_header_extension |-> decode_bin(Slice(buf, 9, 10)),
        sample_skew |-> decode_bin(Slice(buf, 10, 11)),
        trace_edit |-> decode_bin(Slice(buf, 11, 12)),
        extended_channel_set_number |-> decode_bin(Slice(buf, 15, 16)),
        extended_file_number |-> decode_bin(Slice(buf, 17, 20))]

\* _read_traceh_eb1 .. _read_traceh_eb7: blocks 2 and 5 decode doubles
TracehEbError(n, buf) ==
    IF n = 2 /\ (~decode_dbl_ok(Slice(buf, 0, 8)) \/ ~decode_dbl_ok(Slice(buf, 8, 16)))
    THEN "struct.error"
    ELSE IF n = 5 /\ (~decode_dbl_ok(Slice(buf, 8, 16)) \/ ~decode_dbl_ok(Slice(buf, 16, 24)))
    THEN "struct.error"
    ELSE "none"

Sentinel24(v) == IF v = 16777215 THEN None ELSE v

\* the integer and boolean fields of extension block n
TracehEb(n, buf) ==
    CASE n = 1 -> [receiver_line_number |-> Sentinel24(decode_bin(Slice(buf, 0, 3))),
                   receiver_point_number |-> Sentinel24(decode_bin(Slice(buf, 3, 6))),
                   receiver_point_index |-> decode_bin(Slice(buf, 6, 7)),
                   number_of_samples_per_trace |-> decode_bin(Slice(buf, 7, 10))]
      [] n = 2 -> [sensor_type_number |-> decode_bin(Slice(buf, 20, 21)),
                   DSD_identification_number |-> decode_bin(Slice(buf, 24, 28)),
                   extended_trace_number |-> decode_bin(Slice(buf, 28, 32))]
      [] n = 3 -> [resistance_error |-> decode_bin_bool(Slice(buf, 20, 21)),
                   tilt_error |-> decode_bin_bool(Slice(buf, 21, 22))]
      [] n = 4 -> [capacitance_error |-> decode_bin_bool(Slice(buf, 24, 25)),
                   cutoff_error |-> decode_bin_bool(Slice(buf, 25, 26))]
      [] n = 5 -> [leakage_error |-> decode_bin_bool(Slice(buf, 24, 25)),
                   instrument_horizontal_position_accuracy_in_mm |->
                       decode_bin(Slice(buf, 25, 28))]
      [] n = 6 -> [unit_serial_number |-> decode_bin(Slice(buf, 1, 4)),
                   channel_number |-> decode_bin(Slice(buf, 4, 5)),
                   assembly_type |-> decode_bin(Slice(buf, 8, 9)),
                   assembly_serial_number |-> decode_bin(Slice(buf, 9, 12)),
                   location_in_assembly |-> decode_bin(Slice(buf, 12, 13))]
      [] OTHER -> [trace_max_time_in_us |-> decode_bin(Slice(buf, 20, 24)),
                   number_of_interpolations |-> decode_bin(Slice(buf, 24, 28)),
                   seismic_trace_offset_value |-> decode_bin(Slice(buf, 28, 32))]

\* _read_trace_data: array('f').fromstring needs whole 4-byte items
TraceDataError(tmp) == IF Len(tmp) % SampleSize # 0 THEN "ValueError" ELSE "none"

TraceData(tmp) ==
    [i \in 1..(Len(tmp) \div SampleSize) |->
        F32(SubSeq(tmp, SampleSize * (i - 1) + 1, SampleSize * i))]

\* np.mod(x, 1) == 0 for a single x
IsWhole(x) ==
    IF x.exp = 255 THEN FALSE
    ELSE IF x.exp = 0 THEN x.frac = 0
    ELSE IF x.exp >= 150 THEN TRUE
    ELSE IF x.exp < 127 THEN FALSE
    ELSE x.frac % (2 ^ (150 - x.exp)) = 0

AllWhole(d) == \A i \in 1..Len(d) : IsWhole(d[i])

\* a merge that applies the scan type header last
BuildSegdHeader_SchLast(gh, sc, eh, er, th) ==
    Update(Update(Update(Update(Update(Dict0, gh), eh), [external_header |-> er]), th),
           sc[th.channel_set_number])

\* _build_segd_header, given that sch has the trace's channel set
BuildSegdHeader(gh, sc, eh, er, th) ==
    Update(Update(Update(Update(Update(Dict0, gh), sc[th.channel_set_number]), eh),
                  [external_header |-> er]), th)

(***************************************************************************)
(* The state machine: SegDParser(segd_path) followed by calls of read_segd *)
(***************************************************************************)
NoData == [set |-> FALSE, rows |-> 0, cols |-> 0, m |-> <<>>]

\* __init__
Init ==
    /\ file \in Files
    /\ pc = "idle"
    /\ err = "none"
    /\ ncalls = 0
    /\ stream = "unopened"
    /\ pos = 0
    /\ log = <<>>
    /\ header_block = <<>>
    /\ traceh_list = <<>>
    /\ traces_data = NoData
    /\ generalh = Dict0
    /\ sch = Dict0
    /\ sch_n = 0
    /\ extdh = Dict0
    /\ extrh = NoneText
    /\ traceh = Dict0
    /\ eb_n = 0
    /\ data = <<>>
    /\ st = <<>>
    /\ convert_to_int = TRUE
    /\ arg = <<>>
    /\ ret = None

\* an exception leaves read_segd
Raise(e) == pc' = "raised" /\ err' = e

\* the parser object's attributes
attrs == <<header_block, traceh_list, traces_data>>
\* the locals of read_segd
locals == <<generalh, sch, sch_n, extdh, extrh, traceh, eb_n, data, st, convert_to_int>>

\* read_segd is called: open(self._filepath, 'rb')
Open ==
    /\ pc \in {"idle", "done", "raised"}
    /\ ncalls < MaxCalls
    /\ ncalls' = ncalls + 1
    /\ pc' = "gh1"
    /\ err' = "none"
    /\ stream' = "open"
    /\ pos' = 0
    /\ log' = <<>>
    /\ generalh' = Dict0 /\ sch' = Dict0 /\ sch_n' = 0 /\ extdh' = Dict0
    /\ extrh' = NoneText /\ traceh' = Dict0 /\ eb_n' = 0 /\ data' = <<>>
    /\ st' = <<>> /\ convert_to_int' = TRUE
    /\ UNCHANGED <<file, arg, ret, header_block, traceh_list, traces_data>>

ReadGeneralHdr1 ==
    /\ pc = "gh1"
    /\ LET buf == ReadBuf(GeneralHdrSize)
           e == GeneralHdr1Error(buf)
       IN /\ pos' = pos + Len(buf)
          /\ log' = Append(log, LogEntry("gh1", 0, GeneralHdrSize, buf))
          /\ header_block' = header_block \o buf
          /\ IF e # "none"
             THEN Raise(e) /\ UNCHANGED generalh
             ELSE pc' = "gh2" /\ generalh' = GeneralHdr1(buf) /\ UNCHANGED err
    /\ UNCHANGED <<file, arg, ret, ncalls, stream, traceh_list, traces_data, sch, sch_n, extdh,
                   extrh, traceh, eb_n, data, st, convert_to_int>>

ReadGeneralHdr2 ==
    /\ pc = "gh2"
    /\ LET buf == ReadBuf(GeneralHdrSize)
           e == GeneralHdr2Error(buf)
       IN /\ pos' = pos + Len(buf)
          /\ log' = Append(log, LogEntry("gh2", 0, GeneralHdrSize, buf))
          /\ header_block' = header_block \o buf
          /\ IF e # "none"
             THEN Raise(e) /\ UNCHANGED generalh
             ELSE pc' = "gh3" /\ generalh' = Update(generalh, GeneralHdr2(buf))
                  /\ UNCHANGED err
    /\ UNCHANGED <<file, arg, ret, ncalls, stream, traceh_list, traces_data, sch, sch_n, extdh,
                   extrh, traceh, eb_n, data, st, convert_to_int>>

\* _read_general_hdr3, then sch = {} and the entry of the scan type loop
ReadGeneralHdr3 ==
    /\ pc = "gh3"
    /\ LET buf == ReadBuf(GeneralHdrSize)
       IN /\ pos' = pos + Len(buf)
          /\ log' = Append(log, LogEntry("gh3", 0, GeneralHdrSize, buf))
          /\ header_block' = header_block \o buf
          /\ generalh' = Update(generalh, GeneralHdr3(buf))
    /\ sch' = Dict0
    /\ sch_n' = 0
    /\ pc' = IF generalh.n_channel_sets_per_record > 0 THEN "sch" ELSE "extdh"
    /\ UNCHANGED <<file, arg, ret, err, ncalls, stream, traceh_list, traces_data, extdh,
                   extrh, traceh, eb_n, data, st, convert_to_int>>

\* one turn of the scan type loop: _read_sch, SEGDScanTypeError caught
ReadSch ==
    /\ pc = "sch"
    /\ LET buf == ReadBuf(SchSize)
           e == SchError(buf)
       IN /\ pos' = pos + Len(buf)
          /\ log' = Append(log, LogEntry("sch", 0, SchSize, buf))
          /\ header_block' = header_block \o buf
          /\ IF e \in {"none", "SEGDScanTypeError"}
             THEN /\ sch' = IF e = "none"
                            THEN (Sch(buf).channel_set_number :> Sch(buf)) @@ sch
                            ELSE sch
                  /\ sch_n' = sch_n + 1
                  /\ pc' = IF sch_n + 1 < generalh.n_channel_sets_per_record
                           THEN "sch" ELSE "extdh"
                  /\ UNCHANGED err
             ELSE Raise(e) /\ UNCHANGED <<sch, sch_n>>
    /\ UNCHANGED <<file, arg, ret, ncalls, stream, traceh_list, traces_data, generalh, extdh,
                   extrh, traceh, eb_n, data, st, convert_to_int>>

ReadExtendedHeader ==
    /\ pc = "extdh"
    /\ LET size == generalh.extended_header_length * 32
           buf == ReadBuf(size)
           e == ExtendedHeaderError(buf)
       IN /\ pos' = pos + Len(buf)
          /\ log' = Append(log, LogEntry("extdh", 0, size, buf))
          /\ header_block' = header_block \o buf
          /\ IF e # "none"
             THEN Raise(e) /\ UNCHANGED extdh
             ELSE pc' = "extrh" /\ extdh' = ExtendedHeader(buf) /\ UNCHANGED err
    /\ UNCHANGED <<file, arg, ret, ncalls, stream, traceh_list, traces_data, generalh, sch, sch_n,
                   extrh, traceh, eb_n, data, st, convert_to_int>>

\* a resolution that tests the raw byte 0xFF instead of its decoded value
ExtHdrLng_RawSentinel(gh) ==
    IF gh.external_header_length = 255
    THEN gh.external_header_blocks ELSE gh.external_header_length

\* the external header length read_segd resolves
ExtHdrLng(gh) ==
    IF gh.external_header_length = ExtHdrOverflow
    THEN gh.external_header_blocks ELSE gh.external_header_length

\* _read_external_header, then the entry of the trace loop
ReadExternalHeader ==
    /\ pc = "extrh"
    /\ IF ExtHdrLng(generalh) = None
       THEN Raise("TypeError") /\ UNCHANGED <<pos, log, header_block, extrh, st, convert_to_int>>
       ELSE LET size == ExtHdrLng(generalh) * 32
                buf == ReadBuf(size)
            IN /\ pos' = pos + Len(buf)
               /\ log' = Append(log, LogEntry("extrh", 0, size, buf))
               /\ header_block' = header_block \o buf
               /\ extrh' = decode_asc(buf)
               /\ st' = <<>>
               /\ convert_to_int' = TRUE
               /\ pc' = IF extdh.total_number_of_traces > 0 THEN "traceh" ELSE "close"
               /\ UNCHANGED err
    /\ UNCHANGED <<file, arg, ret, ncalls, stream, traceh_list, traces_data, generalh, sch, sch_n,
                   extdh, traceh, eb_n, data>>

ReadTraceh ==
    /\ pc = "traceh"
    /\ LET buf == ReadBuf(TracehSize)
       IN /\ pos' = pos + Len(buf)
          /\ log' = Append(log, LogEntry("traceh", 0, TracehSize, buf))
          /\ traceh_list' = Append(traceh_list, buf)
          /\ traceh' = Traceh(buf)
          /\ pc' = IF Traceh(buf).trace_header_extension > 0 THEN "eb" ELSE "data"
    /\ eb_n' = 0
    /\ UNCHANGED <<file, arg, ret, err, ncalls, stream, header_block, traces_data, generalh, sch,
                   sch_n, extdh, extrh, data, st, convert_to_int>>

\* one turn of the loop of _read_trace_data_block: _read_traceh_eb[n]()
ReadTracehEb ==
    /\ pc = "eb"
    /\ IF eb_n >= 7
       THEN Raise("IndexError") /\ UNCHANGED <<pos, log, traceh_list, traceh, eb_n>>
       ELSE LET buf == ReadBuf(TracehEbSize)
                e == TracehEbError(eb_n + 1, buf)
            IN /\ pos' = pos + Len(buf)
               /\ log' = Append(log, LogEntry("eb", eb_n + 1, TracehEbSize, buf))
               /\ traceh_list' = [traceh_list EXCEPT ![Len(traceh_list)] = @ \o buf]
               /\ IF e # "none"
                  THEN Raise(e) /\ UNCHANGED <<traceh, eb_n>>
                  ELSE /\ traceh' = Update(traceh, TracehEb(eb_n + 1, buf))
                       /\ eb_n' = eb_n + 1
                       /\ pc' = IF eb_n + 1 < traceh.trace_header_extension
                                THEN "eb" ELSE "data"
                       /\ UNCHANGED err
    /\ UNCHANGED <<file, arg, ret, ncalls, stream, header_block, traces_data, generalh, sch, sch_n,
                   extdh, extrh, data, st, convert_to_int>>

\* a sample read that asks for one byte per sample
ReadTraceData_SizeInSamples ==
    /\ pc = "data"
    /\ LET size == extdh.number_of_samples_in_trace
           tmp == ReadBuf(size)
           e == TraceDataError(tmp)
       IN /\ pos' = pos + Len(tmp)
          /\ log' = Append(log, LogEntry("data", 0, size, tmp))
          /\ IF e # "none"
             THEN Raise(e) /\ UNCHANGED data
             ELSE pc' = "assemble" /\ data' = TraceData(tmp) /\ UNCHANGED err
    /\ UNCHANGED <<file, arg, ret, ncalls, stream, header_block, traceh_list, traces_data, generalh,
                   sch, sch_n, extdh, extrh, traceh, eb_n, st, convert_to_int>>

ReadTraceData ==
    /\ pc = "data"
    /\ LET size == extdh.number_of_samples_in_trace
           tmp == ReadBuf(size * SampleSize)
           e == TraceDataError(tmp)
       IN /\ pos' = pos + Len(tmp)
          /\ log' = Append(log, LogEntry("data", 0, size * SampleSize, tmp))
          /\ IF e # "none"
             THEN Raise(e) /\ UNCHANGED data
             ELSE pc' = "assemble" /\ data' = TraceData(tmp) /\ UNCHANGED err
    /\ UNCHANGED <<file, arg, ret, ncalls, stream, header_block, traceh_list, traces_data, generalh,
                   sch, sch_n, extdh, extrh, traceh, eb_n, st, convert_to_int>>

\* traces_data[i, :] = d broadcasts an array of one item and raises ValueError
\* for any other array whose length is not the row's
RowFits(d, cols) == Len(d) = cols \/ Len(d) = 1

Row(d, cols) == IF Len(d) = cols THEN d ELSE [j \in 1..cols |-> d[1]]

\* the first row that raises, Len(s) + 1 when none does
FirstBadRow(s, cols) ==
    LET bad == {i \in 1..Len(s) : ~RowFits(s[i].data, cols)}
    IN IF bad = {} THEN Len(s) + 1 ELSE CHOOSE i \in bad : \A j \in bad : i <= j

\* np.zeros((rows, cols)), then the rows that were assigned before row `upto`
Matrix(s, rows, cols, upto) ==
    [i \in 1..rows |->
        IF i < upto /\ i <= Len(s) THEN Row(s[i].data, cols)
        ELSE [j \in 1..cols |-> F32Zero]]

\* a trace loop that hands the caller the rows assembled so far when the
\* merge of a trace fails
AssembleTrace_KeepsEarlierRows ==
    /\ pc = "assemble"
    /\ convert_to_int' = (convert_to_int /\ AllWhole(data))
    /\ IF extdh.sample_rate_in_us = 0
       THEN Raise("ZeroDivisionError") /\ UNCHANGED <<st, traces_data>>
       ELSE IF traceh.channel_set_number \notin DOMAIN sch
       THEN /\ Raise("KeyError")
            /\ traces_data' = [set |-> TRUE, rows |-> Len(st),
                               cols |-> extdh.number_of_samples_in_trace,
                               m |-> [r \in 1..Len(st) |-> st[r].data]]
            /\ UNCHANGED st
       ELSE /\ st' = Append(st, [data |-> data, dtype |-> "float32",
                                 segd |-> BuildSegdHeader(generalh, sch, extdh, extrh, traceh)])
            /\ pc' = IF Len(st) + 1 < extdh.total_number_of_traces THEN "traceh" ELSE "close"
            /\ UNCHANGED <<err, traces_data>>
    /\ UNCHANGED <<file, arg, ret, ncalls, stream, pos, log, header_block, traceh_list,
                   generalh, sch, sch_n, extdh, extrh, traceh, eb_n, data>>

\* a trace loop whose flag speaks of the latest trace only
AssembleTrace_FlagOfLatestTrace ==
    /\ pc = "assemble"
    /\ convert_to_int' = AllWhole(data)
    /\ IF extdh.sample_rate_in_us = 0
       THEN Raise("ZeroDivisionError") /\ UNCHANGED st
       ELSE IF traceh.channel_set_number \notin DOMAIN sch
       THEN Raise("KeyError") /\ UNCHANGED st
       ELSE /\ st' = Append(st, [data |-> data, dtype |-> "float32",
                                 segd |-> BuildSegdHeader(generalh, sch, extdh, extrh, traceh)])
            /\ pc' = IF Len(st) + 1 < extdh.total_number_of_traces THEN "traceh" ELSE "close"
            /\ UNCHANGED err
    /\ UNCHANGED <<file, arg, ret, ncalls, stream, pos, log, header_block, traceh_list, traces_data,
                   generalh, sch, sch_n, extdh, extrh, traceh, eb_n, data>>

\* the rest of one turn of the trace loop: convert_to_int, band_code of
\* 1. / sample_rate, _build_segd_header, st.append
AssembleTrace ==
    /\ pc = "assemble"
    /\ convert_to_int' = (convert_to_int /\ AllWhole(data))
    /\ IF extdh.sample_rate_in_us = 0
       THEN Raise("ZeroDivisionError") /\ UNCHANGED st
       ELSE IF traceh.channel_set_number \notin DOMAIN sch
       THEN Raise("KeyError") /\ UNCHANGED st
       ELSE /\ st' = Append(st, [data |-> data, dtype |-> "float32",
                                 segd |-> BuildSegdHeader(generalh, sch, extdh, extrh, traceh)])
            /\ pc' = IF Len(st) + 1 < extdh.total_number_of_traces THEN "traceh" ELSE "close"
            /\ UNCHANGED err
    /\ UNCHANGED <<file, arg, ret, ncalls, stream, pos, log, header_block, traceh_list, traces_data,
                   generalh, sch, sch_n, extdh, extrh, traceh, eb_n, data>>

\* self._byte_stream.close()
CloseStream ==
    /\ pc = "close"
    /\ stream' = "closed"
    /\ pc' = "matrix"
    /\ UNCHANGED <<file, arg, ret, err, ncalls, pos, log, header_block, traceh_list, traces_data,
                   generalh, sch, sch_n, extdh, extrh, traceh, eb_n, data, st, convert_to_int>>

\* the end of read_segd: traces_data is built, the traces of st are narrowed
BuildTracesData ==
    /\ pc = "matrix"
    /\ LET rows == extdh.total_number_of_traces
           cols == extdh.number_of_samples_in_trace
           bad == FirstBadRow(st, cols)
       IN /\ traces_data' = [set |-> TRUE, rows |-> rows, cols |-> cols,
                             m |-> Matrix(st, rows, cols, bad)]
          /\ IF bad <= Len(st)
             THEN Raise("ValueError") /\ UNCHANGED st
             ELSE /\ pc' = "done"
                  /\ st' = IF convert_to_int
                           THEN [i \in 1..Len(st) |-> [st[i] EXCEPT !.dtype = "int32"]]
                           ELSE st
                  /\ UNCHANGED err
    /\ UNCHANGED <<file, arg, ret, ncalls, stream, pos, log, header_block, traceh_list,
                   generalh, sch, sch_n, extdh, extrh, traceh, eb_n, data, convert_to_int>>

Next ==
    \/ Open
    \/ ReadGeneralHdr1
    \/ ReadGeneralHdr2
    \/ ReadGeneralHdr3
    \/ ReadSch
    \/ ReadExtendedHeader
    \/ ReadExternalHeader
    \/ ReadTraceh
    \/ ReadTracehEb
    \/ ReadTraceData
    \/ AssembleTrace
    \/ CloseStream
    \/ BuildTracesData

Spec == Init /\ [][Next]_vars

(***************************************************************************)
(* Decoder.decode_bcd applied on its own to a byte sequence.               *)
(***************************************************************************)
MaxBcdLen == 2        \* bytes of a sequence handed to decode_bcd

\* bytes with decimal nibbles and bytes with a nibble above 9
BcdBytes == {0, 9, 16, 88, 128, 153, 10, 122, 160, 255}

InitBcd ==
    /\ arg \in SeqsUpTo(BcdBytes, MaxBcdLen)
    /\ ret = None
    /\ pc = "bcd"
    /\ err = "none"
    /\ file = <<>> /\ ncalls = 0 /\ stream = "unopened" /\ pos = 0 /\ log = <<>>
    /\ header_block = <<>> /\ traceh_list = <<>> /\ traces_data = NoData
    /\ generalh = Dict0 /\ sch = Dict0 /\ sch_n = 0 /\ extdh = Dict0
    /\ extrh = NoneText /\ traceh = Dict0 /\ eb_n = 0 /\ data = <<>>
    /\ st = <<>> /\ convert_to_int = TRUE

ApplyDecodeBcd ==
    /\ pc = "bcd"
    /\ pc' = "bcd_done"
    /\ err' = decode_bcd_error(arg)
    /\ ret' = IF decode_bcd_error(arg) = "none" THEN decode_bcd(arg) ELSE None
    /\ UNCHANGED <<file, arg, ncalls, stream, pos, log, header_block, traceh_list,
                   traces_data, generalh, sch, sch_n, extdh, extrh, traceh, eb_n,
                   data, st, convert_to_int>>

SpecBcd == InitBcd /\ [][ApplyDecodeBcd]_vars

(***************************************************************************)
(* Decoder.decode_asc applied on its own to a byte sequence.               *)
(***************************************************************************)
MaxAscLen == 3        \* bytes of a sequence handed to decode_asc

\* 'A', 'B', '1', ' ', and two bytes that are not printable
AscBytes == {65, 66, 49, 32, 0, 200}

InitAsc ==
    /\ arg \in SeqsUpTo(AscBytes, MaxAscLen)
    /\ ret = None
    /\ pc = "asc"
    /\ err = "none"
    /\ file = <<>> /\ ncalls = 0 /\ stream = "unopened" /\ pos = 0 /\ log = <<>>
    /\ header_block = <<>> /\ traceh_list = <<>> /\ traces_data = NoData
    /\ generalh = Dict0 /\ sch = Dict0 /\ sch_n = 0 /\ extdh = Dict0
    /\ extrh = NoneText /\ traceh = Dict0 /\ eb_n = 0 /\ data = <<>>
    /\ st = <<>> /\ convert_to_int = TRUE

ApplyDecodeAsc ==
    /\ pc = "asc"
    /\ pc' = "asc_done"
    /\ ret' = decode_asc(arg)
    /\ UNCHANGED <<file, arg, err, ncalls, stream, pos, log, header_block, traceh_list,
                   traces_data, generalh, sch, sch_n, extdh, extrh, traceh, eb_n,
                   data, st, convert_to_int>>

SpecAsc == InitAsc /\ [][ApplyDecodeAsc]_vars

(***************************************************************************)
(* What the claims speak of, read off the file and the log of reads.       *)
(***************************************************************************)
Entries(who) == {i \in 1..Len(log) : log[i].who = who}

\* the t-th read a reader made
NthEntry(who, t) ==
    CHOOSE a \in Entries(who) : Cardinality({b \in Entries(who) : b <= a}) = t

\* every read so far obtained the size it asked for
CompleteReads == \A i \in 1..Len(log) : log[i].got = log[i].n

\* trace_header_extension as the file's trace header at log[a] declares it
DeclaredExt(a) == decode_bin(Slice(file, log[a].at + 9, log[a].at + 10))

\* the trace block whose header read is log[a] has reached its sample read
BlockRead(a) ==
    \E d \in (a + 1)..Len(log) :
        log[d].who = "data" /\ \A j \in (a + 1)..(d - 1) : log[j].who = "eb"

\* the i-th declared scan type block of the file
SchBlock(i) == Slice(file, 96 + 32 * (i - 1), 96 + 32 * i)

ZeroBlocks(n) == {i \in 1..n : SumBytes(SchBlock(i)) = 0}

\* the scan type loop of this call has ended
SchDone == pc = "extdh" \/ Entries("extdh") # {}

\* the samples of the i-th trace block as the file holds them
SamplesOf(i) ==
    LET e == log[NthEntry("data", i)]
    IN TraceData(SubSeq(file, e.at + 1, e.at + e.got))

Nibbles(bs) ==
    [i \in 1..(2 * Len(bs)) |->
        IF i % 2 = 1 THEN bs[(i + 1) \div 2] \div 16 ELSE bs[i \div 2] % 16]

RECURSIVE DigitSum(_, _)
DigitSum(ns, i) ==
    IF i > Len(ns) THEN 0 ELSE ns[i] * (10 ^ (Len(ns) - i)) + DigitSum(ns, i + 1)

(***************************************************************************)
(* The claims.                                                             *)
(***************************************************************************)

\* C1: when the format code decoded from bytes 2-3 of General Header 1 is not
\* 8058, read_segd ends with SEGDNotImplemented after one read, the 32 bytes
\* asked for General Header 1 at offset 0: nothing of General Header 2/3, of
\* the scan type section or of a trace block is read, and the cursor stays
\* within General Header 1.
C1_UnsupportedFormatStopsAtHeader1 ==
    (pc \notin {"idle", "gh1"} /\ decode_bcd(Slice(file, 2, 4)) # SupportedFormat)
        => /\ pc = "raised"
           /\ err = "SEGDNotImplemented"
           /\ Len(log) = 1
           /\ log[1] = [who |-> "gh1", blk |-> 0, n |-> 32, at |-> 0,
                        got |-> Min(32, Len(file))]
           /\ pos = Min(32, Len(file))
           /\ sch = Dict0 /\ st = <<>>

\* C1, its case: a file that goes on after General Header 1 was refused for
\* its format code with the cursor at 32
C1_Witness ==
    /\ pc = "raised" /\ err = "SEGDNotImplemented"
    /\ Len(file) > 96 /\ pos = 32

\* C3 as claimed: N declared blocks of which M are all-zero leave exactly
\* N - M entries in the scan type table.
C3_TableHasNMinusMEntries ==
    SchDone =>
        Cardinality(DOMAIN sch) =
            generalh.n_channel_sets_per_record
                - Cardinality(ZeroBlocks(generalh.n_channel_sets_per_record))

\* C3 as amended: after the scan type section the table has one entry per
\* distinct channel_set_number among the blocks that are not all-zero, each
\* entry decoded from the last such block with that number; an all-zero
\* block adds no entry and raises nothing out of read_segd; so the table has
\* at most N - M entries.
C3_TableKeyedByChannelSetLastWins ==
    SchDone =>
        LET n == generalh.n_channel_sets_per_record
            nz == (1..n) \ ZeroBlocks(n)
            csn(i) == decode_bcd(Slice(SchBlock(i), 1, 2))
        IN /\ DOMAIN sch = {csn(i) : i \in nz}
           /\ \A i \in nz :
                (\A j \in nz : j > i => csn(j) # csn(i)) => sch[csn(i)] = Sch(SchBlock(i))
           /\ Cardinality(DOMAIN sch) <= n - Cardinality(ZeroBlocks(n))
           /\ err # "SEGDScanTypeError"

\* C3, its case: two declared blocks, neither all-zero, one table entry
C3_Witness ==
    /\ SchDone
    /\ generalh.n_channel_sets_per_record = 2
    /\ ZeroBlocks(2) = {}
    /\ Cardinality(DOMAIN sch) = 1

\* C3, a second case: an all-zero block was skipped beside a kept one
C3_WitnessZeroBlock ==
    /\ SchDone
    /\ generalh.n_channel_sets_per_record = 2
    /\ Cardinality(ZeroBlocks(2)) = 1
    /\ Cardinality(DOMAIN sch) = 1

\* C9 as claimed: when a trace's channel_set_number is missing from the scan
\* type table, the traces decoded before it and their rows of the sample
\* matrix remain available to the caller.
C9_EarlierTracesRemainAvailable ==
    (pc = "raised" /\ err = "KeyError")
        => /\ traces_data.set
           /\ \A i \in 1..Len(st) : traces_data.m[i] = st[i].data

\* C9 as amended: the KeyError is raised while the trace's merged record is
\* built, after its header, extensions and samples were read, and it ends
\* read_segd: traces_data is not assigned, so no row of an earlier trace
\* reaches the caller; and no trace whose channel_set_number is missing from
\* the table is ever appended to st.
C9_MissingChannelSetAbortsDecode ==
    /\ (pc = "raised" /\ err = "KeyError")
        => /\ traceh.channel_set_number \notin DOMAIN sch
           /\ log[Len(log)].who = "data"
           /\ Len(st) < extdh.total_number_of_traces
           /\ ~traces_data.set
    /\ \A i \in 1..Len(st) : st[i].segd.channel_set_number \in DOMAIN sch

\* C9, its case: the second trace names a missing channel set after the
\* first was assembled
C9_Witness ==
    /\ pc = "raised" /\ err = "KeyError"
    /\ Len(st) = 1
    /\ CompleteReads

C2_ExactlyKExtensionBlocks ==
    \A a \in 1..Len(log) :
        (log[a].who = "traceh" /\ DeclaredExt(a) <= 7 /\ BlockRead(a)) =>
            LET k == DeclaredExt(a)
            IN /\ \A j \in 1..k :
                    log[a + j].who = "eb" /\ log[a + j].blk = j /\ log[a + j].n = 32
               /\ log[a + k + 1].who = "data"
               /\ log[a + k + 1].at - (log[a].at + 20) = 32 * k

\* C2 where every read obtained its size: the same statement holds.
C2_OnCompleteReads == CompleteReads => C2_ExactlyKExtensionBlocks

\* C4 as claimed: after a successful read_segd, traces_data has
\* total_number_of_traces rows of number_of_samples_in_trace columns and row i
\* holds the samples of the i-th trace block.
C4_MatrixHoldsTraceSamples ==
    pc = "done" =>
        /\ traces_data.set
        /\ traces_data.rows = extdh.total_number_of_traces
        /\ traces_data.cols = extdh.number_of_samples_in_trace
        /\ Len(traces_data.m) = traces_data.rows
        /\ \A i \in 1..traces_data.rows :
              /\ Len(traces_data.m[i]) = traces_data.cols
              /\ traces_data.m[i] = SamplesOf(i)

\* C4 where every read obtained its size: the same statement holds.
C4_OnCompleteReads == CompleteReads => C4_MatrixHoldsTraceSamples

\* the length of the header section as the general headers declare it
DeclaredHeaderLen ==
    96 + 32 * generalh.n_channel_sets_per_record
       + 32 * generalh.extended_header_length + 32 * ExtHdrLng(generalh)

\* C5 as claimed: after a successful read_segd on a fresh parser, header_block
\* is the prefix of the file of length 96 + 32*N + 32*extended_header_length
\* + 32*(resolved external header length).
C5_HeaderBlockIsDeclaredPrefix ==
    (pc = "done" /\ ncalls = 1) =>
        /\ Len(header_block) = DeclaredHeaderLen
        /\ DeclaredHeaderLen <= Len(file)
        /\ header_block = SubSeq(file, 1, DeclaredHeaderLen)

\* C5 where every read obtained its size: the same statement holds.
C5_OnCompleteReads == CompleteReads => C5_HeaderBlockIsDeclaredPrefix

\* C6 as claimed: after a successful read_segd on a fresh parser, traceh_list
\* has one entry per trace, in order, and the entry of a trace declaring k
\* extensions is its 20 header bytes followed by the 32*k bytes of its
\* extension blocks.
C6_TraceCaptureIsHeaderAndExtensions ==
    (pc = "done" /\ ncalls = 1) =>
        /\ Len(traceh_list) = extdh.total_number_of_traces
        /\ \A i \in 1..Len(traceh_list) :
              LET a == NthEntry("traceh", i)
                  k == DeclaredExt(a)
              IN /\ Len(traceh_list[i]) = 20 + 32 * k
                 /\ traceh_list[i] = Slice(file, log[a].at, log[a].at + 20 + 32 * k)

\* C6 where every read obtained its size: the same statement holds.
C6_OnCompleteReads == CompleteReads => C6_TraceCaptureIsHeaderAndExtensions

\* C7 as claimed: whenever read_segd ends, by return or by an exception, the
\* stream it opened is closed.
C7_StreamClosedOnEveryExit ==
    pc \in {"done", "raised"} => stream = "closed"

\* C8 as claimed, in its weakest reading: a read that obtains fewer bytes than
\* it asked for ends the decode there (with whatever exception): it is the
\* last read and read_segd has raised.
C8_ShortReadEndsDecode ==
    \A i \in 1..Len(log) :
        log[i].got < log[i].n => (i = Len(log) /\ pc = "raised")


\* C11: when byte 31 of General Header 1 is 0xFF the external header reader
\* asks for 32 * external_header_blocks bytes, the count being bytes 7-8 of
\* General Header 2; for every other value of the byte it asks for 32 * (the
\* byte decoded as BCD) bytes whatever General Header 2 holds; the cursor
\* advances by that size, or to the end of the file when less remains.
C11_ExternalHeaderLengthResolved ==
    \A a \in Entries("extrh") :
        LET b == Slice(file, 31, 32)
            blocks == IF b = <<255>> THEN decode_bin(Slice(file, 39, 41))
                      ELSE decode_bcd(b)
        IN /\ log[a].n = 32 * blocks
           /\ log[a].got = Min(32 * blocks, Len(file) - log[a].at)

\* C11, its case: byte 31 is 0xFF, General Header 2 counts 2 blocks, and the
\* 64 bytes of the external header were consumed
C11_Witness ==
    /\ Slice(file, 31, 32) = <<255>>
    /\ \E a \in Entries("extrh") : log[a].n = 64 /\ log[a].got = 64

\* C11, a second case: byte 31 is 0x01 while General Header 2 counts 2 blocks
C11_WitnessOwnLength ==
    /\ Slice(file, 31, 32) = <<1>>
    /\ decode_bin(Slice(file, 39, 41)) = 2
    /\ \E a \in Entries("extrh") : log[a].n = 32 /\ log[a].got = 32

\* the latest read a reader made
LastEntry(who) == CHOOSE a \in Entries(who) : \A b \in Entries(who) : b <= a

\* C12 as claimed: a trace header whose bytes 0-1 are 0xFF 0xFF is decoded
\* with file_number absent (None).
C12_FileNumberSentinelIsAbsent ==
    (pc \in {"eb", "data", "assemble"}
        /\ Slice(file, log[LastEntry("traceh")].at, log[LastEntry("traceh")].at + 2)
              = <<255, 255>>)
        => traceh.file_number = None

IsPrintable(x) == \E j \in 1..Len(Printable) : Printable[j] = x

\* C13 as claimed: decode_asc returns the printable bytes of its input, all of
\* them and in input order, and None exactly when no byte is printable.
C13_KeepsEveryPrintableByte ==
    pc = "asc_done" =>
        LET kept == SelectSeq(arg, IsPrintable)
        IN ret = IF kept = <<>> THEN NoneText ELSE kept

\* C14: from the entry of the trace loop to the return of read_segd,
\* convert_to_int is true exactly when every sample of every trace assembled
\* so far is a whole number, so a fractional sample makes it false for good;
\* and whether it is true or false, every row of traces_data that received a
\* full trace holds that trace's samples as decoded from the file.
C14_FlagIffEverySampleWhole ==
    /\ (pc \in {"traceh", "eb", "data", "assemble", "close", "matrix", "done"})
          => (convert_to_int <=> \A i \in 1..Len(st) : AllWhole(st[i].data))
    /\ pc = "done" =>
          \A i \in 1..Len(st) :
              /\ st[i].data = SamplesOf(i)
              /\ Len(SamplesOf(i)) = traces_data.cols => traces_data.m[i] = SamplesOf(i)

\* C14, its case: a fractional first trace, a whole second trace, the flag
\* false at the return and the matrix holding both
C14_Witness ==
    /\ pc = "done" /\ CompleteReads
    /\ Len(st) = 2 /\ traces_data.cols = 1
    /\ ~AllWhole(st[1].data) /\ AllWhole(st[2].data)
    /\ ~convert_to_int

\* C14, a second case: every sample whole, the flag true, the matrix
\* holding the decoded values
C14_WitnessAllWhole ==
    /\ pc = "done" /\ CompleteReads
    /\ Len(st) = 2 /\ traces_data.cols = 1
    /\ convert_to_int
    /\ traces_data.m[2] = <<F32(<<65, 32, 0, 0>>)>>

\* the end of the header section as this call read it
HeaderEnd == log[LastEntry("extrh")].at + log[LastEntry("extrh")].got

\* C15 as claimed: what a parser exposes after a read_segd call depends only
\* on the bytes of the file, not on earlier calls: header_block is the header
\* bytes this call read and traceh_list has one capture per trace header this
\* call read, after the second call as after the first.
C15_CapturesDependOnFileOnly ==
    pc = "done" =>
        /\ header_block = SubSeq(file, 1, HeaderEnd)
        /\ Len(traceh_list) = Cardinality(Entries("traceh"))

\* C15 for the first call on a fresh parser: the same statement holds.
C15_OnFirstCall == ncalls = 1 => C15_CapturesDependOnFileOnly

\* C16 as claimed: after a successful decode every field of the scan type
\* header a trace selects has, in the trace's merged record, the value it has
\* in the scan type table.
C16_ScanTypeFieldsSurviveMerge ==
    pc = "done" =>
        \A i \in 1..Len(st) :
            LET m == st[i].segd
                e == sch[m.channel_set_number]
            IN \A f \in DOMAIN e : m[f] = e[f]

\* C16 as amended: every field of the selected scan type header other than
\* extended_channel_set_number has the table's value in the merged record;
\* extended_channel_set_number has the value of byte 15 of the trace header,
\* which the later merge of the trace header puts in its place.
C16_ScanTypeFieldsButExtendedNumber ==
    pc = "done" =>
        \A i \in 1..Len(st) :
            LET m == st[i].segd
                e == sch[m.channel_set_number]
                a == log[NthEntry("traceh", i)].at
            IN /\ \A f \in DOMAIN e \ {"extended_channel_set_number"} : m[f] = e[f]
               /\ m.extended_channel_set_number = decode_bin(Slice(file, a + 15, a + 16))

\* C16, its case: a decoded trace whose header numbers the extended channel
\* set 7 while its scan type header numbers it 11
C16_Witness ==
    /\ pc = "done" /\ CompleteReads /\ Len(st) >= 1
    /\ sch[st[1].segd.channel_set_number].extended_channel_set_number = 11
    /\ st[1].segd.extended_channel_set_number = 7
    /\ st[1].segd.number_of_channels = 2

\* the place of a reader in the order of the decode pass
Rank(who) ==
    CASE who = "gh1" -> 1 [] who = "gh2" -> 2 [] who = "gh3" -> 3 [] who = "sch" -> 4
      [] who = "extdh" -> 5 [] who = "extrh" -> 6 [] OTHER -> 7

\* the bytes asked of the stream by the first i reads
RECURSIVE Requested(_)
Requested(i) == IF i = 0 THEN 0 ELSE log[i].n + Requested(i - 1)

\* the sizes the trace blocks declare: 20 + 32 * k_i + 4 * samples, summed
RECURSIVE TraceBlockSizes(_)
TraceBlockSizes(i) ==
    IF i = 0 THEN 0
    ELSE 20 + 32 * st[i].segd.trace_header_extension
            + 4 * extdh.number_of_samples_in_trace + TraceBlockSizes(i - 1)

\* the size a read declares, from the records decoded so far
DeclaredSize(i) ==
    CASE log[i].who \in {"gh1", "gh2", "gh3", "sch", "eb"} -> 32
      [] log[i].who = "extdh" -> 32 * generalh.extended_header_length
      [] log[i].who = "extrh" -> 32 * ExtHdrLng(generalh)
      [] log[i].who = "traceh" -> 20
      [] OTHER -> 4 * extdh.number_of_samples_in_trace

\* C17: the reads of a decode pass start at offset 0, each starts where the
\* one before it ended (no seek, no re-read) and asks for its declared size;
\* the readers run in the order General Header 1, 2, 3, scan type headers,
\* extended header, external header, trace blocks; and on a successful decode
\* there are N scan type reads and total_number_of_traces trace blocks, the
\* bytes asked for add up to 96 + 32*N + 32*extended_header_length
\* + 32*(resolved external header length) + the sum over the traces of
\* 20 + 32*k_i + 4*samples, and the cursor is not past that sum.
C17_SequentialForwardOnly ==
    /\ \A i \in 1..Len(log) :
          /\ log[i].at = IF i = 1 THEN 0 ELSE log[i - 1].at + log[i - 1].got
          /\ log[i].n = DeclaredSize(i)
          /\ \A j \in 1..(i - 1) : Rank(log[j].who) <= Rank(log[i].who)
    /\ \A w \in {"gh1", "gh2", "gh3", "extdh", "extrh"} : Cardinality(Entries(w)) <= 1
    /\ pos = IF log = <<>> THEN 0 ELSE log[Len(log)].at + log[Len(log)].got
    /\ pc = "done" =>
          LET total == 96 + 32 * generalh.n_channel_sets_per_record
                          + 32 * generalh.extended_header_length
                          + 32 * ExtHdrLng(generalh)
                          + TraceBlockSizes(Len(st))
          IN /\ Cardinality(Entries("sch")) = generalh.n_channel_sets_per_record
             /\ Cardinality(Entries("traceh")) = extdh.total_number_of_traces
             /\ Len(st) = extdh.total_number_of_traces
             /\ Requested(Len(log)) = total
             /\ pos <= total

\* C17, its case: a decode of two trace blocks, the first with two extension
\* blocks, that returned after asking for every declared byte
C17_Witness ==
    /\ pc = "done" /\ CompleteReads
    /\ Len(st) = 2 /\ st[1].segd.trace_header_extension = 2
    /\ extdh.number_of_samples_in_trace = 2
    /\ pos = Len(file) /\ pos = Requested(Len(log))

\* the fields of the three overlay variants
OverlayFields ==
    {"number_of_windows", "window_length", "overlap", "historic_range",
     "historic_taper_length_2_exponent", "historic_threshold_init_value",
     "historic_zeroing_length"}

HistoricFields == OverlayFields \ {"number_of_windows", "window_length", "overlap"}

\* C18: in a decoded extended header the overlay fields present are chosen
\* by the value d of bytes [96:100]: for 2 only number_of_windows, bytes
\* [108:112]; for 3 only the four historic fields; for 4 only window_length,
\* bytes [108:112], and overlap, bytes [112:116]; for any other d none, and
\* the header is decoded all the same.
C18_OverlayIsDiscriminatedUnion ==
    \A a \in Entries("extdh") :
        LET at == log[a].at
            d == decode_bin(Slice(file, at + 96, at + 100))
            w(i) == decode_bin(Slice(file, at + i, at + i + 4))
            decoded == ~(a = Len(log) /\ pc = "raised")
        IN /\ decoded =>
                /\ DOMAIN extdh \cap OverlayFields =
                      (CASE d = 2 -> {"number_of_windows"}
                         [] d = 3 -> HistoricFields
                         [] d = 4 -> {"window_length", "overlap"}
                         [] OTHER -> {})
                /\ d = 2 => extdh.number_of_windows = w(108)
                /\ d = 3 => /\ extdh.historic_range = w(120)
                            /\ extdh.historic_taper_length_2_exponent = w(124)
                            /\ extdh.historic_threshold_init_value = w(132)
                            /\ extdh.historic_zeroing_length = w(136)
                /\ d = 4 => extdh.window_length = w(108) /\ extdh.overlap = w(112)
           /\ (log[a].got >= 588) => decoded

\* C18, its case: the discriminant is 4 and the record has window_length 5
\* and overlap 6 as its only overlay fields
C18_Witness ==
    /\ Entries("extdh") # {} /\ pc = "done"
    /\ decode_bin(Slice(file, 192, 196)) = 4
    /\ DOMAIN extdh \cap OverlayFields = {"window_length", "overlap"}
    /\ extdh.window_length = 5 /\ extdh.overlap = 6

\* C18, further cases: the discriminants 2, 3 and 258
C18_WitnessOthers ==
    /\ pc = "done" /\ Entries("extdh") # {}
    /\ \/ decode_bin(Slice(file, 192, 196)) = 2 /\ extdh.number_of_windows = 5
       \/ decode_bin(Slice(file, 192, 196)) = 3 /\ extdh.historic_zeroing_length = 10
       \/ decode_bin(Slice(file, 192, 196)) = 258 /\ DOMAIN extdh \cap OverlayFields = {}
====
